---- MODULE Spec2Model ----
(***************************************************************************)
(* Model of todoist.py: five operations (create_task, get_tasks,           *)
(* update_task, complete_task, delete_task) that each build a TodoistAPI   *)
(* client from the environment credential and issue one remote request.   *)
(*                                                                         *)
(* Representation.  A Python str is a sequence of one-character strings.   *)
(* An Optional value is a sequence of length 0 (None / argument omitted)   *)
(* or 1 (the value).  A dict of keyword arguments is a function from its   *)
(* keys.  Confirmation strings and failure names are atomic strings.       *)
(***************************************************************************)
EXTENDS Integers, Sequences, FiniteSets, TLC

VARIABLES
    env,               \* os.environ["TODOIST_API_TOKEN"]: Optional token
    priority_default,  \* the list object bound as default of get_tasks' priority
    op,                \* the operation of the current / last invocation
    args,              \* the arguments of that invocation
    requests,          \* the remote requests that invocation issued, in order
    result,            \* what that invocation gave its caller
    clients            \* credential and operation of the last two clients built, newest first

vars == <<env, priority_default, op, args, requests, result, clients>>

----------------------------------------------------------------------------
(* Bounds of the model *)

MaxTextLen == 1
MaxSearchLen == 3
MaxPriorities == 2
MaxTasks == 3

----------------------------------------------------------------------------
(* Python values *)

None == << >>
Some(v) == << v >>
Opt(S) == {None} \cup {Some(v) : v \in S}

Min(a, b) == IF a < b THEN a ELSE b
Max(a, b) == IF a > b THEN a ELSE b

\* all str values over an alphabet, up to a length
Texts(alphabet, n) == UNION {[1..k -> alphabet] : k \in 0..n}

\* Python truthiness of an Optional[str] / Optional[list]: None and empty are false
Truthy(o) == o # None /\ Len(o[1]) > 0

\* dict operations: kwargs[k] = v, del kwargs[k]
Put(kw, k, v) == [x \in (DOMAIN kw) \cup {k} |-> IF x = k THEN v ELSE kw[x]]
Del(kw, k) == [x \in (DOMAIN kw) \ {k} |-> kw[x]]
EmptyDict == [x \in {} |-> None]

\* str(int) for a non-negative int, as the f-string f"p{p}" formats it
Digits == <<"0", "1", "2", "3", "4", "5", "6", "7", "8", "9">>
RECURSIVE ToStr(_)
ToStr(n) == IF n < 10 THEN <<Digits[n + 1]>>
            ELSE ToStr(n \div 10) \o <<Digits[(n % 10) + 1]>>

\* sep.join(parts) for a list of str
RECURSIVE Join(_, _)
Join(sep, parts) ==
    IF parts = << >> THEN << >>
    ELSE IF Len(parts) = 1 THEN parts[1]
    ELSE parts[1] \o sep \o Join(sep, Tail(parts))

\* seq[:limit], Python slice semantics (a negative stop counts from the end)
SliceTo(s, limit) ==
    LET n == Len(s)
        stop == IF limit < 0 THEN Max(n + limit, 0) ELSE Min(limit, n)
    IN SubSeq(s, 1, stop)

----------------------------------------------------------------------------
(* Arguments: one record for every operation; a parameter the operation    *)
(* does not have, or that the call omits, is None.                         *)

NoArgs == [task_id |-> None, title |-> None, description |-> None,
           due_string |-> None, due_date |-> None, labels |-> None,
           priority |-> None, project_id |-> None, search_query |-> None,
           due_date_filter |-> None, other_filters |-> None, limit |-> None]

\* the value a parameter is bound to: the argument, or the default when omitted
Bound(arg, default) == IF arg = None THEN default ELSE arg[1]

PRIORITY_DEFAULT == <<1, 2, 3, 4>>
LIMIT_DEFAULT == 10
Levels == {1, 2, 3, 4}

----------------------------------------------------------------------------
(* The remote call *)

\* os.getenv("TODOIST_API_TOKEN"): the value the variable holds now
\* (variant: a credential kept from the first client built)
getenv_cached == IF clients = << >> THEN env ELSE clients[1].token
getenv == env

\* one request through a client built with `token`
Request(method, token, kwargs, reply) ==
    [method |-> method, token |-> token, kwargs |-> kwargs, reply |-> reply]

\* a reply of the remote service: a failure raised by the client, or a value
Ok(tasks) == [fail |-> None, tasks |-> tasks]
Fail(f) == [fail |-> Some(f), tasks |-> << >>]

\* `API.method(...)` followed by `return value`: an exception raised by the
\* client call is not caught, so it leaves the function in place of the value
\* (variant: the failure is swallowed)
ReturnAlways(reply, value) == [kind |-> "return", value |-> value]
Return(reply, value) ==
    IF reply.fail # None THEN [kind |-> "raise", value |-> reply.fail[1]]
    ELSE [kind |-> "return", value |-> value]

\* the record of the clients built: this one, then the one before it
Built(name, token) ==
    <<[op |-> name, token |-> token]>> \o SubSeq(clients, 1, Min(1, Len(clients)))

----------------------------------------------------------------------------
(* create_task *)

\* the keyword arguments of API.add_task
\* (variant: due_date is not deleted under due_string)
CreateKwargsBoth(a) ==
    LET k0 == [content |-> a.title[1],
               description |-> Bound(a.description, << >>),
               priority |-> Bound(a.priority, 1)]
        k1 == IF a.due_date # None THEN Put(k0, "due_date", a.due_date[1]) ELSE k0
    IN IF a.due_string # None THEN Put(k1, "due_string", a.due_string[1]) ELSE k1
CreateKwargs(a) ==
    LET k0 == [content |-> a.title[1],
               description |-> Bound(a.description, << >>),
               priority |-> Bound(a.priority, 1)]
        k1 == IF a.due_date # None THEN Put(k0, "due_date", a.due_date[1]) ELSE k0
        k2 == IF a.due_string # None
              THEN Put(IF "due_date" \in DOMAIN k1 THEN Del(k1, "due_date") ELSE k1,
                       "due_string", a.due_string[1])
              ELSE k1
    IN k2

create_task(a, reply) ==
    LET API == getenv
    IN /\ op' = "create_task"
       /\ args' = a
       /\ requests' = <<Request("add_task", API, CreateKwargs(a), reply)>>
       /\ result' = Return(reply, "Task added")
       /\ clients' = Built("create_task", API)
       /\ UNCHANGED <<env, priority_default>>

----------------------------------------------------------------------------
(* update_task *)

\* the keyword arguments of API.update_task besides task_id
\* (variant: description is sent even when omitted)
UpdateKwargsDescription(a) ==
    LET k0 == EmptyDict
        k1 == IF a.title # None THEN Put(k0, "content", a.title[1]) ELSE k0
        k2 == Put(k1, "description", Bound(a.description, << >>))
        k3 == IF a.labels # None THEN Put(k2, "labels", a.labels[1]) ELSE k2
        k4 == IF a.priority # None THEN Put(k3, "priority", a.priority[1]) ELSE k3
        k5 == IF a.due_date # None THEN Put(k4, "due_date", a.due_date[1]) ELSE k4
        k6 == IF a.due_string # None
              THEN Put(IF "due_date" \in DOMAIN k5 THEN Del(k5, "due_date") ELSE k5,
                       "due_string", a.due_string[1])
              ELSE k5
    IN k6
UpdateKwargs(a) ==
    LET k0 == EmptyDict
        k1 == IF a.title # None THEN Put(k0, "content", a.title[1]) ELSE k0
        k2 == IF a.description # None THEN Put(k1, "description", a.description[1]) ELSE k1
        k3 == IF a.labels # None THEN Put(k2, "labels", a.labels[1]) ELSE k2
        k4 == IF a.priority # None THEN Put(k3, "priority", a.priority[1]) ELSE k3
        k5 == IF a.due_date # None THEN Put(k4, "due_date", a.due_date[1]) ELSE k4
        k6 == IF a.due_string # None
              THEN Put(IF "due_date" \in DOMAIN k5 THEN Del(k5, "due_date") ELSE k5,
                       "due_string", a.due_string[1])
              ELSE k5
    IN k6

update_task(a, reply) ==
    LET API == getenv
        kwargs == Put(UpdateKwargs(a), "task_id", a.task_id[1])
    IN /\ op' = "update_task"
       /\ args' = a
       /\ requests' = <<Request("update_task", API, kwargs, reply)>>
       /\ result' = Return(reply, "Task updated")
       /\ clients' = Built("update_task", API)
       /\ UNCHANGED <<env, priority_default>>

----------------------------------------------------------------------------
(* complete_task, delete_task *)

complete_task(a, reply) ==
    LET API == getenv
    IN /\ op' = "complete_task"
       /\ args' = a
       /\ requests' = <<Request("close_task", API, [task_id |-> a.task_id[1]], reply)>>
       /\ result' = Return(reply, "Task completed")
       /\ clients' = Built("complete_task", API)
       /\ UNCHANGED <<env, priority_default>>

delete_task(a, reply) ==
    LET API == getenv
    IN /\ op' = "delete_task"
       /\ args' = a
       /\ requests' = <<Request("delete_task", API, [task_id |-> a.task_id[1]], reply)>>
       /\ result' = Return(reply, "Task deleted")
       /\ clients' = Built("delete_task", API)
       /\ UNCHANGED <<env, priority_default>>

----------------------------------------------------------------------------
(* get_tasks *)

\* re.sub(re.compile("[|&!()\\s]"), lambda m: "\\" + m.group(), search_query)
Special == {"|", "&", "!", "(", ")", " "}
RECURSIVE Escape(_)
Escape(s) ==
    IF s = << >> THEN << >>
    ELSE (IF Head(s) \in Special THEN <<"\\", Head(s)>> ELSE <<Head(s)>>)
         \o Escape(Tail(s))

SearchPrefix == <<"s", "e", "a", "r", "c", "h", ":", " ">>

\* the search clause: the escaped copy is computed and dropped
\* (variant: the escaped copy is the one embedded)
SearchClauseEscaped(search_query) ==
    LET escaped == Escape(search_query)
    IN SearchPrefix \o escaped
SearchClause(search_query) ==
    LET escaped == Escape(search_query)
    IN SearchPrefix \o search_query

\* "(" + "|".join(f"p{p}" for p in priority) + ")"
\* (variant: tokens separated by ",")
PriorityClauseComma(priority) ==
    <<"(">> \o Join(<<",">>, [i \in 1..Len(priority) |-> <<"p">> \o ToStr(priority[i])])
            \o <<")">>
PriorityClause(priority) ==
    <<"(">> \o Join(<<"|">>, [i \in 1..Len(priority) |-> <<"p">> \o ToStr(priority[i])])
            \o <<")">>

\* the list `filters` after the four appends
\* (variant: the priority clause appended before the due-date clause)
FiltersSwapped(search_query, due_date_filter, priority, other_filters) ==
    LET f0 == << >>
        f1 == IF Truthy(search_query)
              THEN Append(f0, SearchClause(search_query[1])) ELSE f0
        f2 == IF priority # << >> THEN Append(f1, PriorityClause(priority)) ELSE f1
        f3 == IF Truthy(due_date_filter) THEN Append(f2, due_date_filter[1]) ELSE f2
        f4 == IF Truthy(other_filters) THEN Append(f3, other_filters[1]) ELSE f3
    IN f4
Filters(search_query, due_date_filter, priority, other_filters) ==
    LET f0 == << >>
        f1 == IF Truthy(search_query)
              THEN Append(f0, SearchClause(search_query[1])) ELSE f0
        f2 == IF Truthy(due_date_filter) THEN Append(f1, due_date_filter[1]) ELSE f1
        f3 == IF priority # << >> THEN Append(f2, PriorityClause(priority)) ELSE f2
        f4 == IF Truthy(other_filters) THEN Append(f3, other_filters[1]) ELSE f3
    IN f4

\* "&".join(filters) if filters else None
\* (variant: the join is sent even for an empty list)
FilterArgAlways(filters) == Some(Join(<<"&">>, filters))
FilterArg(filters) == IF filters # << >> THEN Some(Join(<<"&">>, filters)) ELSE None

\* the dict built for one task of the remote result
TaskView(task) ==
    [id |-> task.id, title |-> task.content, description |-> task.description,
     labels |-> task.labels, priority |-> task.priority,
     due_date |-> IF task.due # None THEN Some(task.due[1].date) ELSE None,
     created_at |-> task.created_at]

\* the priority list object once the body has run: it is only iterated
\* (variant: the body removes the last element)
PriorityAfterPop(priority) == SubSeq(priority, 1, Len(priority) - 1)
PriorityAfter(priority) == priority

get_tasks(a, reply) ==
    LET API == getenv
        priority == IF a.priority = None THEN priority_default ELSE a.priority[1]
        limit == Bound(a.limit, LIMIT_DEFAULT)
        filters == Filters(a.search_query, a.due_date_filter, priority, a.other_filters)
        kwargs == [project_id |-> a.project_id, filter |-> FilterArg(filters)]
        tasks == SliceTo(reply.tasks, limit)
    IN /\ op' = "get_tasks"
       /\ args' = a
       /\ requests' = <<Request("get_tasks", API, kwargs, reply)>>
       /\ result' = Return(reply, [i \in 1..Len(tasks) |-> TaskView(tasks[i])])
       /\ clients' = Built("get_tasks", API)
       /\ priority_default' = IF a.priority = None THEN PriorityAfter(priority)
                              ELSE priority_default
       /\ UNCHANGED env

----------------------------------------------------------------------------
(* Inputs *)

Tokens == {"tokA", "tokB"}
Envs == Opt(Tokens)
Failures == {"HTTPError", "ConnectionError"}
TaskIds == {"1", "2"}

\* two task objects of the remote service, one without and one with a due date
Task1 == [id |-> "1", content |-> "buy milk", description |-> "", labels |-> << >>,
          priority |-> 1, due |-> None, created_at |-> "2025-01-01T00:00:00Z"]
Task2 == [id |-> "2", content |-> "pay rent", description |-> "flat", labels |-> <<"home">>,
          priority |-> 4, due |-> Some([date |-> "2025-12-31"]),
          created_at |-> "2025-01-02T00:00:00Z"]
RemoteTasks == {Task1, Task2}

Lists(S, n) == UNION {[1..k -> S] : k \in 0..n}

Nothing == [kind |-> "none", value |-> None]
Pending == [kind |-> "pending", value |-> None]

----------------------------------------------------------------------------
(* The module in use: any sequence of calls, the environment changing      *)
(* between them.                                                           *)

CreateCalls ==
    {[NoArgs EXCEPT !.title = Some(<<"a">>), !.due_string = ds, !.due_date = dd] :
        ds \in Opt({<<"s">>}), dd \in Opt({<<"d">>})}
UpdateCalls ==
    {[NoArgs EXCEPT !.task_id = Some("1"), !.title = t, !.due_string = ds] :
        t \in Opt({<<"a">>}), ds \in Opt({<<"s">>})}
IdCalls == {[NoArgs EXCEPT !.task_id = Some(i)] : i \in TaskIds}
GetCalls ==
    {[NoArgs EXCEPT !.priority = p, !.search_query = q] :
        p \in {None, Some(<< >>), Some(<<2, 4>>)}, q \in Opt({<<"a">>})}

Replies == {Ok(<< >>)} \cup {Fail(f) : f \in Failures}
GetReplies == {Ok(<< >>), Ok(<<Task1, Task2>>)} \cup {Fail(f) : f \in Failures}

Init ==
    /\ env \in Envs
    /\ priority_default = PRIORITY_DEFAULT
    /\ op = "none"
    /\ args = NoArgs
    /\ requests = << >>
    /\ result = Nothing
    /\ clients = << >>

\* the environment variable is set to another value, or unset
SetEnv ==
    /\ \E v \in Envs : v # env /\ env' = v
    /\ UNCHANGED <<priority_default, op, args, requests, result, clients>>

CreateTask == \E a \in CreateCalls, reply \in Replies : create_task(a, reply)
GetTasks == \E a \in GetCalls, reply \in GetReplies : get_tasks(a, reply)
UpdateTask == \E a \in UpdateCalls, reply \in Replies : update_task(a, reply)
CompleteTask == \E a \in IdCalls, reply \in Replies : complete_task(a, reply)
DeleteTask == \E a \in IdCalls, reply \in Replies : delete_task(a, reply)

Next ==
    \/ SetEnv
    \/ CreateTask
    \/ GetTasks
    \/ UpdateTask
    \/ CompleteTask
    \/ DeleteTask

Spec == Init /\ [][Next]_vars

----------------------------------------------------------------------------
(* create_task and update_task as functions of their arguments: one call,  *)
(* its arguments drawn from every combination of present and absent.       *)

PlainTexts == Texts({"a"}, MaxTextLen)
LabelLists == {<< >>, <<"home">>}

CreateInputs ==
    {[NoArgs EXCEPT !.title = Some(t), !.description = d, !.due_string = ds,
                    !.due_date = dd, !.priority = p] :
        t \in PlainTexts, d \in Opt(PlainTexts), ds \in Opt(PlainTexts),
        dd \in Opt(PlainTexts), p \in Opt(Levels)}
UpdateInputs ==
    {[NoArgs EXCEPT !.task_id = Some("1"), !.title = t, !.description = d,
                    !.due_string = ds, !.due_date = dd, !.labels = l, !.priority = p] :
        t \in Opt(PlainTexts), d \in Opt(PlainTexts), ds \in Opt(PlainTexts),
        dd \in Opt(PlainTexts), l \in Opt(LabelLists), p \in Opt(Levels)}

InitWrite ==
    /\ env \in Envs
    /\ priority_default = PRIORITY_DEFAULT
    /\ \/ op = "create_task" /\ args \in CreateInputs
       \/ op = "update_task" /\ args \in UpdateInputs
    /\ requests = << >>
    /\ result = Pending
    /\ clients = << >>

CreateOnce ==
    /\ op = "create_task" /\ result.kind = "pending"
    /\ \E reply \in Replies : create_task(args, reply)
UpdateOnce ==
    /\ op = "update_task" /\ result.kind = "pending"
    /\ \E reply \in Replies : update_task(args, reply)

NextWrite ==
    \/ CreateOnce
    \/ UpdateOnce

SpecWrite == InitWrite /\ [][NextWrite]_vars

----------------------------------------------------------------------------
(* The filter builder of get_tasks as a function of its arguments.         *)

SearchTexts == Texts({"a", "&", " "}, MaxSearchLen)
DueTexts == Texts({"a"}, MaxTextLen)
OtherTexts == Texts({"@"}, MaxTextLen)
PriorityLists == Lists(Levels, MaxPriorities)

InitFilter ==
    /\ env = Some("tokA")
    /\ priority_default = PRIORITY_DEFAULT
    /\ op = "get_tasks"
    /\ \E pid \in Opt({"7"}), q \in Opt(SearchTexts), d \in Opt(DueTexts),
          p \in Opt(PriorityLists), o \in Opt(OtherTexts) :
            args = [NoArgs EXCEPT !.project_id = pid, !.search_query = q,
                                  !.due_date_filter = d, !.priority = p,
                                  !.other_filters = o]
    /\ requests = << >>
    /\ result = Pending
    /\ clients = << >>

FilterOnce ==
    /\ op = "get_tasks" /\ result.kind = "pending"
    /\ \E reply \in {Ok(<<Task1>>), Fail("HTTPError")} : get_tasks(args, reply)

NextFilter == FilterOnce

SpecFilter == InitFilter /\ [][NextFilter]_vars

----------------------------------------------------------------------------
(* The truncation of get_tasks as a function of limit and the remote's     *)
(* result.                                                                 *)

Limits == (0 - (MaxTasks + 1)) .. (MaxTasks + 1)

ListInputs ==
    {[NoArgs EXCEPT !.limit = l, !.priority = p] :
        l \in Opt(Limits), p \in {None, Some(<< >>)}}

InitList ==
    /\ env = Some("tokA")
    /\ priority_default = PRIORITY_DEFAULT
    /\ op = "get_tasks"
    /\ args \in ListInputs
    /\ requests = << >>
    /\ result = Pending
    /\ clients = << >>

ListOnce ==
    /\ op = "get_tasks" /\ result.kind = "pending"
    /\ \E tasks \in Lists(RemoteTasks, MaxTasks) : get_tasks(args, Ok(tasks))

NextList == ListOnce

SpecList == InitList /\ [][NextList]_vars

----------------------------------------------------------------------------
(* Properties.  Done: the invocation has issued its request and ended.     *)

Done(name) == op = name /\ result.kind \in {"return", "raise"}
Sent == requests[1].kwargs

\* C1: in create_task and update_task, a due_string that is not None (the empty
\* string included) is sent as due_string and no due_date is sent; due_date is
\* sent, with the argument's value, only when due_date is not None and
\* due_string is None; the request never carries both keys.
C1_DueStringSuppressesDueDate ==
    (Done("create_task") \/ Done("update_task")) =>
        LET K == DOMAIN Sent
        IN /\ args.due_string # None =>
                /\ "due_string" \in K
                /\ Sent["due_string"] = args.due_string[1]
                /\ "due_date" \notin K
           /\ "due_string" \in K => args.due_string # None
           /\ "due_date" \in K =>
                /\ args.due_date # None
                /\ args.due_string = None
                /\ Sent["due_date"] = args.due_date[1]
           /\ ~("due_date" \in K /\ "due_string" \in K)

\* C1 witness: create_task was given the empty due_string and a due_date, and
\* the request carries due_string only.
C1_Witness ==
    /\ Done("create_task")
    /\ args.due_string = Some(<< >>)
    /\ args.due_date = Some(<<"a">>)
    /\ "due_string" \in DOMAIN Sent
    /\ "due_date" \notin DOMAIN Sent

\* the keys update_task is expected to send for its arguments
SuppliedKeys(a) ==
    {"task_id"}
    \cup (IF a.title # None THEN {"content"} ELSE {})
    \cup (IF a.description # None THEN {"description"} ELSE {})
    \cup (IF a.labels # None THEN {"labels"} ELSE {})
    \cup (IF a.priority # None THEN {"priority"} ELSE {})
    \cup (IF a.due_string # None THEN {"due_string"} ELSE {})
    \cup (IF a.due_date # None /\ a.due_string = None THEN {"due_date"} ELSE {})

\* C2: the keys of the update request are exactly task_id plus the keys of the
\* fields passed as non-None (title as content, due_date dropped when
\* due_string is passed); with no optional field the request is task_id only.
C2_UpdateForwardsOnlySupplied ==
    Done("update_task") =>
        /\ DOMAIN Sent = SuppliedKeys(args)
        /\ Sent["task_id"] = args.task_id[1]
        /\ (/\ args.title = None /\ args.description = None /\ args.labels = None
            /\ args.priority = None /\ args.due_string = None /\ args.due_date = None)
           => DOMAIN Sent = {"task_id"}

\* C2 witness: an update of labels and title only, description passed as the
\* empty string; the request has exactly those keys and task_id.
C2_Witness ==
    /\ Done("update_task")
    /\ args.title # None /\ args.labels # None /\ args.description = Some(<< >>)
    /\ args.priority = None /\ args.due_string = None /\ args.due_date = None
    /\ DOMAIN Sent = {"task_id", "content", "labels", "description"}

\* C3: the list get_tasks returns is the prefix of the remote result, in remote
\* order, of length min(max(limit, 0), n); limit is not part of the request.
C3_TruncatesToLimit ==
    (Done("get_tasks") /\ result.kind = "return") =>
        LET remote == requests[1].reply.tasks
            limit == IF args.limit = None THEN 10 ELSE args.limit[1]
            out == result.value
        IN /\ Len(out) = Min(Max(limit, 0), Len(remote))
           /\ \A i \in 1..Len(out) : out[i].id = remote[i].id
           /\ DOMAIN Sent = {"project_id", "filter"}

\* the '&'-join of two strings either of which may be absent (empty)
AndJoin(x, y) == IF x = << >> THEN y ELSE IF y = << >> THEN x ELSE x \o <<"&">> \o y

\* the clause an input contributes, empty when the input is None or empty
Clause(o) == IF Truthy(o) THEN o[1] ELSE << >>
Effective(a) == IF a.priority = None THEN priority_default ELSE a.priority[1]

\* C4: the filter sent is the '&'-join of the clauses present, in the order
\* search, due-date, priority, passthrough; the due-date and passthrough
\* filters are their own clauses verbatim; no '&' at either end or between
\* absent clauses.
C4_ClausesInFixedOrder ==
    (Done("get_tasks") /\ Sent.filter # None) =>
        LET f == Sent.filter[1]
            search == IF Truthy(args.search_query)
                      THEN SearchPrefix \o args.search_query[1] ELSE << >>
            prio == IF Effective(args) # << >> THEN PriorityClause(Effective(args))
                    ELSE << >>
        IN /\ f = AndJoin(search, AndJoin(Clause(args.due_date_filter),
                              AndJoin(prio, Clause(args.other_filters))))
           /\ (~Truthy(args.search_query) /\ Truthy(args.due_date_filter)) =>
                SubSeq(f, 1, Len(args.due_date_filter[1])) = args.due_date_filter[1]
           /\ Truthy(args.other_filters) =>
                SubSeq(f, Len(f) - Len(args.other_filters[1]) + 1, Len(f))
                    = args.other_filters[1]

\* C4 witness: all four inputs supplied; the filter is
\* "search: a&a&(p4|p2)&@".
C4_Witness ==
    /\ Done("get_tasks")
    /\ args.search_query = Some(<<"a">>) /\ args.due_date_filter = Some(<<"a">>)
    /\ args.priority = Some(<<4, 2>>) /\ args.other_filters = Some(<<"@">>)
    /\ Sent.filter = Some(SearchPrefix \o <<"a", "&", "a", "&", "(", "p", "4", "|",
                                           "p", "2", ")", "&", "@">>)

\* C5: the filter is None exactly when search_query, due_date_filter, priority
\* and other_filters are each None or empty, and otherwise a non-empty string;
\* a call that leaves priority at its default always sends a filter.
C5_FilterAbsentIffNoClause ==
    Done("get_tasks") =>
        LET none == /\ ~Truthy(args.search_query) /\ ~Truthy(args.due_date_filter)
                    /\ Effective(args) = << >> /\ ~Truthy(args.other_filters)
        IN /\ Sent.filter = None <=> none
           /\ Sent.filter # None => Len(Sent.filter[1]) > 0
           /\ args.priority = None => Sent.filter # None

\* C5 witness: an explicitly empty priority list with an empty search string
\* and nothing else: no filter is sent.
C5_Witness ==
    /\ Done("get_tasks")
    /\ args.priority = Some(<< >>) /\ args.search_query = Some(<< >>)
    /\ args.due_date_filter = None /\ args.other_filters = None
    /\ Sent.filter = None

\* where the priority clause starts in the filter: after the search and due-date
\* clauses and their separators
PriorityOffset(a) ==
    (IF Truthy(a.search_query) THEN Len(SearchPrefix) + Len(a.search_query[1]) + 1 ELSE 0)
    + (IF Truthy(a.due_date_filter) THEN Len(a.due_date_filter[1]) + 1 ELSE 0)

LevelChar(p) == CASE p = 1 -> "1" [] p = 2 -> "2" [] p = 3 -> "3" [] p = 4 -> "4"

\* C6: for a non-empty priority list the priority clause is "(", then one token
\* p<level> per element in input order (duplicates kept) separated by "|", then
\* ")"; for an empty list there is no priority clause at all: the filter holds
\* the other clauses and their separators and nothing else.
C6_PriorityClause ==
    Done("get_tasks") =>
        LET pr == Effective(args)
            n == Len(pr)
            off == PriorityOffset(args)
        IN IF n > 0
           THEN LET f == Sent.filter[1]
                IN /\ Len(f) >= off + 3 * n + 1
                   /\ f[off + 1] = "("
                   /\ \A i \in 1..n :
                        /\ f[off + 3 * i - 1] = "p"
                        /\ f[off + 3 * i] = LevelChar(pr[i])
                        /\ f[off + 3 * i + 1] = (IF i < n THEN "|" ELSE ")")
                   /\ Len(f) > off + 3 * n + 1 => f[off + 3 * n + 2] = "&"
           ELSE Sent.filter # None =>
                    Len(Sent.filter[1]) =
                        IF Truthy(args.other_filters)
                        THEN off + Len(args.other_filters[1]) ELSE off - 1

\* C6 witness: priority [2, 4] alone gives the filter "(p2|p4)".
C6_Witness ==
    /\ Done("get_tasks")
    /\ args.priority = Some(<<2, 4>>)
    /\ Sent.filter = Some(<<"(", "p", "2", "|", "p", "4", ")">>)

\* C9: a non-empty search_query gives the clause "search: " followed by the raw
\* text: the filter starts with it, the clause ends the filter or is followed
\* by the separator, and no backslash is put before any character.
C9_SearchTextUnescaped ==
    (Done("get_tasks") /\ Truthy(args.search_query)) =>
        LET f == Sent.filter[1]
            q == args.search_query[1]
            m == Len(SearchPrefix) + Len(q)
        IN /\ Len(f) >= m
           /\ SubSeq(f, 1, m) = SearchPrefix \o q
           /\ Len(f) > m => f[m + 1] = "&"
           /\ \A i \in 1..Len(f) : f[i] # "\\"

\* C9 witness: the search text "a&a" with no due-date filter sends the same
\* filter as the search text "a" with the due-date filter "a".
C9_Witness ==
    /\ Done("get_tasks")
    /\ args.search_query = Some(<<"a", "&", "a">>)
    /\ args.due_date_filter = None
    /\ Sent.filter = FilterArg(Filters(Some(<<"a">>), Some(<<"a">>), Effective(args),
                                       args.other_filters))

Confirmation ==
    [create_task |-> "Task added", update_task |-> "Task updated",
     complete_task |-> "Task completed", delete_task |-> "Task deleted"]

\* C7: every invocation issues exactly one remote request; when it fails the
\* caller gets that failure and no value; the confirmation string (or the task
\* list) is returned only when the request did not fail.
C7_OneRequestFailurePropagates ==
    op # "none" =>
        /\ Len(requests) = 1
        /\ LET reply == requests[1].reply
           IN IF reply.fail # None
              THEN result.kind = "raise" /\ result.value = reply.fail[1]
              ELSE /\ result.kind = "return"
                   /\ op \in DOMAIN Confirmation => result.value = Confirmation[op]
                   /\ op = "get_tasks" => Len(result.value) = Len(reply.tasks)

\* C7 witness: a delete_task whose request failed with ConnectionError; the
\* caller got ConnectionError after one request.
C7_Witness ==
    /\ op = "delete_task"
    /\ Len(requests) = 1
    /\ requests[1].reply.fail = Some("ConnectionError")
    /\ result.kind = "raise" /\ result.value = "ConnectionError"

\* C8: every step that is an operation call builds its client from the value
\* the environment variable holds at that call.
C8_CredentialReadPerCall ==
    [][env' = env =>
        /\ requests' # << >>
        /\ requests'[1].token = env
        /\ clients'[1].token = env]_vars

\* C8 witness: a call made with the variable unset, right after a call made
\* with a token: the later client got the absent value.
C8_Witness ==
    /\ Len(clients) = 2
    /\ clients[2].token # None
    /\ clients[1].token = None
    /\ requests[1].token = None
    /\ env = None

\* C10: the default priority list is never changed, and a get_tasks call with
\* default arguments sends the filter "(p1|p2|p3|p4)" whatever calls came before.
C10_DefaultPriorityUnshared ==
    /\ priority_default = <<1, 2, 3, 4>>
    /\ (op = "get_tasks" /\ args = NoArgs) =>
            Sent.filter = Some(<<"(", "p", "1", "|", "p", "2", "|", "p", "3", "|",
                                 "p", "4", ")">>)

\* C10 witness: a second get_tasks call in a row, with default arguments, sends
\* "(p1|p2|p3|p4)".
C10_Witness ==
    /\ op = "get_tasks" /\ args = NoArgs
    /\ Len(clients) = 2 /\ clients[2].op = "get_tasks"
    /\ Sent.filter = Some(<<"(", "p", "1", "|", "p", "2", "|", "p", "3", "|",
                            "p", "4", ")">>)

====
